---- MODULE Spec2Model ----
(***************************************************************************)
(* A model of textnets' network.py: the Textnet object built from a tidy   *)
(* count table (TF-IDF weighting, document-frequency filter, pivot to the  *)
(* incidence matrix `im`, bipartite graph), and its operations: the cached *)
(* properties node_types / clusters / context, project and                 *)
(* _formal_context.                                                        *)
(*                                                                         *)
(* Floating point numbers are fixed-point integers: tf and idf are in      *)
(* hundredths, tf_idf (their product, the entries of `im`) in units of     *)
(* 1e-4, and the projection weights (products of two entries) in 1e-8.     *)
(***************************************************************************)
EXTENDS Integers, Sequences, FiniteSets, TLC

VARIABLES tidy_text, sublinear, min_docs, doc_attrs, df, im, graph, cache, computed, ret

vars == <<tidy_text, sublinear, min_docs, doc_attrs, df, im, graph, cache, computed, ret>>

(***************************************************************************)
(* Bounds of the model.                                                    *)
(***************************************************************************)
\* Largest raw count n of a row of the tidy table.
MaxN == 1
\* Largest min_docs passed to the constructor (min_docs >= 1).
MaxMinDocs == 2
\* Largest number of times one cached property is computed before the model
\* stops counting (the code computes each once; a recomputing variant would
\* count further).
MaxComputed == 2

(***************************************************************************)
(* Labels.  pandas' pivot sorts the row and the column labels, so the      *)
(* label universes are given as sequences in sorted order.                 *)
(***************************************************************************)
DocOrder == <<"d1", "d2", "d3">>
TermOrder == <<"a", "b">>

Range(s) == {s[i] : i \in 1..Len(s)}
Docs == Range(DocOrder)
Terms == Range(TermOrder)

\* Python's None (dict.get of a missing key, an unset attribute).
None == "None"
\* The float nan, which 0 / 0 yields in pandas; every comparison with it is
\* false and it propagates through products.
NaN == -999999
\* 1.0 in hundredths, the unit of tf and idf.
Scale == 100

\* numpy.log10 of 1..16, rounded to hundredths.
Log10Table == <<0, 30, 48, 60, 70, 78, 85, 90, 95, 100, 104, 108, 111, 115, 118, 120>>

\* numpy.log10(p / q) for positive integers p, q.
Log10Ratio(p, q) == Log10Table[p] - Log10Table[q]

\* Float product, nan-propagating.
Mul(x, y) == IF x = NaN \/ y = NaN THEN NaN ELSE x * y

RECURSIVE SumN(_)
\* The sum of the n column of a set of rows.
SumN(rows) ==
    IF rows = {} THEN 0
    ELSE LET r == CHOOSE q \in rows : TRUE IN r.n + SumN(rows \ {r})

RECURSIVE SumSeq(_)
SumSeq(s) == IF s = <<>> THEN 0 ELSE Head(s) + SumSeq(Tail(s))

RECURSIVE Concat(_)
\* The concatenation of a sequence of sequences.
Concat(ss) == IF ss = <<>> THEN <<>> ELSE Head(ss) \o Concat(Tail(ss))

\* The subsequence of s of the elements in S, order kept.
Restrict(s, S) == SelectSeq(s, LAMBDA x : x \in S)

\* Position of x in the sequence s (x occurs in s).
IndexOf(s, x) == CHOOSE i \in 1..Len(s) : s[i] = x

(***************************************************************************)
(* _sublinear_scaling and _tf_idf.  A tidy table is a set of rows          *)
(* [label, term, n], label being the index (the document).                 *)
(***************************************************************************)
\* A variant of _sublinear_scaling that drops the "1 +".
SublinearNoOffset(n) == IF n > 0 THEN Log10Table[n] ELSE 0

_sublinear_scaling(n) == IF n > 0 THEN Scale + Log10Table[n] ELSE 0

RowLabels(tt) == {r.label : r \in tt}
RowTerms(tt) == {r.term : r \in tt}

\* tidy_text.groupby(tidy_text.index).sum(): the total count of a document.
Total(tt, d) == SumN({r \in tt : r.label = d})

\* The tf column: sublinear scaling of n, or n / total (nan for 0 / 0).
Tf(tt, sub, r) ==
    IF sub THEN _sublinear_scaling(r.n)
    ELSE IF Total(tt, r.label) = 0 THEN NaN
         ELSE (r.n * Scale) \div Total(tt, r.label)

\* tidy_text["term"].value_counts(): the number of rows of a term.
ValueCounts(tt, t) == Cardinality({r \in tt : r.term = t})

\* idfs = log10(len(set(index)) / value_counts)
Idf(tt, t) == Log10Ratio(Cardinality(RowLabels(tt)), ValueCounts(tt, t))

\* tt["tf_idf"] = tt["tf"] * tt["idf"]
TfIdfOf(tt, sub, r) == Mul(Tf(tt, sub, r), Idf(tt, r.term))

\* wc = tt.groupby("term").count()["tf"]: count() skips nan.
Wc(tt, sub, t) == Cardinality({r \in tt : r.term = t /\ Tf(tt, sub, r) # NaN})

\* A variant of Keep that is off by one (wc >= min_docs - 1).
KeepOffByOne(tt, sub, md, t) == Wc(tt, sub, t) >= md - 1

\* The rows kept: those of the terms with wc >= min_docs.
Keep(tt, sub, md, t) == Wc(tt, sub, t) >= md

\* A variant of _tf_idf that masks the weight of the rows it should drop
\* (tt.where(tt["keep"])) instead of dropping them.
TfIdfMasked(tt, sub, md) ==
    {[label |-> r.label, term |-> r.term, n |-> r.n,
      tf_idf |-> IF Keep(tt, sub, md, r.term) THEN TfIdfOf(tt, sub, r) ELSE NaN] : r \in tt}

_tf_idf(tt, sub, md) ==
    {[label |-> r.label, term |-> r.term, n |-> r.n, tf_idf |-> TfIdfOf(tt, sub, r)] :
        r \in {q \in tt : Keep(tt, sub, md, q.term)}}

(***************************************************************************)
(* The incidence matrix: pivot(values="tf_idf", columns="term").fillna(0). *)
(***************************************************************************)
FillNa(x) == IF x = NaN THEN 0 ELSE x

Cell(frame, d, t) ==
    IF \E r \in frame : r.label = d /\ r.term = t
    THEN FillNa((CHOOSE r \in frame : r.label = d /\ r.term = t).tf_idf)
    ELSE 0

Pivot(frame) ==
    LET index == Restrict(DocOrder, RowLabels(frame))
        columns == Restrict(TermOrder, RowTerms(frame))
    IN [index |-> index,
        columns |-> columns,
        values |-> [i \in 1..Len(index) |->
                       [j \in 1..Len(columns) |-> Cell(frame, index[i], columns[j])]]]

(***************************************************************************)
(* Textnet.__init__: the bipartite graph.  A graph is [vs, es]: vs the     *)
(* sequence of vertices, each a map from attribute names to values, es the *)
(* sequence of edges [source, target, weight] (vertex positions, from 1).  *)
(***************************************************************************)
NRows(m) == Len(m.index)
NCols(m) == Len(m.columns)

\* A variant of Flatten that reads the entries column by column
\* (flatten(order="F")).
FlattenF(m) == Concat([j \in 1..NCols(m) |-> [i \in 1..NRows(m) |-> m.values[i][j]]])

\* im.to_numpy().flatten(): the entries in row-major order.
Flatten(m) == Concat(m.values)

\* numpy.flatnonzero: the positions of the nonzero entries, ascending.
FlatNonzero(flat) ==
    SelectSeq([k \in 1..Len(flat) |-> k], LAMBDA k : flat[k] # 0)

\* im.to_numpy().flatten()[np.flatnonzero(im)]
EdgeWeights(m) ==
    LET flat == Flatten(m)
        nz == FlatNonzero(flat)
    IN [k \in 1..Len(nz) |-> flat[nz[k]]]

\* The edges igraph's Graph.Incidence creates for one row of the matrix.
IncidenceRow(m, i) ==
    SelectSeq([j \in 1..NCols(m) |-> <<i, NRows(m) + j>>],
              LAMBDA e : m.values[i][e[2] - NRows(m)] # 0)

\* ig.Graph.Incidence(matrix, directed=False): one vertex per row, then one per
\* column, the boolean vertex attribute type (False for rows), and an edge for
\* every nonzero entry, rows scanned in order and each row left to right.
IncidenceEdges(m) == Concat([i \in 1..NRows(m) |-> IncidenceRow(m, i)])

IncidenceTypes(m) == [v \in 1..(NRows(m) + NCols(m)) |-> v > NRows(m)]

\* dict.get
Get(attr, key) == IF key \in DOMAIN attr THEN attr[key] ELSE None

\* g.vs[name] = [attr.get(doc) for doc in g.vs["id"]]: every vertex gets the
\* attribute, looked up by the vertex's current id.
SetVertexAttr(vs, name, attr) ==
    [v \in 1..Len(vs) |->
        [a \in (DOMAIN vs[v]) \cup {name} |->
            IF a = name THEN Get(attr, vs[v]["id"]) ELSE vs[v][a]]]

RECURSIVE SetDocAttrs(_, _)
\* for name, attr in doc_attrs.items(): ...   (items: a sequence of <<name, attr>>)
SetDocAttrs(vs, items) ==
    IF items = <<>> THEN vs
    ELSE SetDocAttrs(SetVertexAttr(vs, Head(items)[1], Head(items)[2]), Tail(items))

BuildGraph(m, attrs) ==
    LET ids == m.index \o m.columns
        types == IncidenceTypes(m)
        edges == IncidenceEdges(m)
        weights == EdgeWeights(m)
        vs0 == [v \in 1..Len(ids) |->
                   [id |-> ids[v], type |-> IF types[v] THEN "term" ELSE "doc"]]
    IN [vs |-> SetDocAttrs(vs0, attrs),
        es |-> [k \in 1..Len(edges) |->
                   [source |-> edges[k][1], target |-> edges[k][2], weight |-> weights[k]]]]

(***************************************************************************)
(* The inputs of the constructor.                                          *)
(***************************************************************************)
Cells == Docs \X Terms

\* The well-formed tidy tables: each (document, term) pair at most once.
TidyTables(counts) ==
    UNION {{ {[label |-> c[1], term |-> c[2], n |-> cnt[c]] : c \in present} :
                cnt \in [present -> counts]} : present \in SUBSET Cells}

\* doc_attrs: the items of the dict, <<>> for None.  The keys are a document, a
\* term and a label that is no label of the table; the values are opaque.
DocAttrsInputs ==
    { <<>>,
      << <<"party", [d \in {"d1", "a", "zz"} |-> IF d = "a" THEN "v2" ELSE "v1"]>> >>,
      << <<"type", [d \in {"d1"} |-> "v1"]>> >>,
      << <<"id", [d \in {"d1"} |-> "v1"]>> >> }

(***************************************************************************)
(* The cached properties.  functools.cached_property computes the value on *)
(* the first access and stores it in the instance; `computed` counts the   *)
(* runs of each property's body.                                           *)
(***************************************************************************)
Unset == [set |-> FALSE, value |-> None]

\* cached_property.__get__: the stored value when there is one, else val.
Lookup(c, name, val) == IF c[name].set THEN c[name].value ELSE val

\* A variant of Store that never stores (a plain property).
StoreNothing(c, name, val) == c

\* cached_property.__get__: the instance dict after an access that yields val.
Store(c, name, val) ==
    IF c[name].set THEN c ELSE [c EXCEPT ![name] = [set |-> TRUE, value |-> val]]

\* The number of runs of the property's body after an access.
Count(c, n, name) == IF c[name].set THEN n ELSE [n EXCEPT ![name] = @ + 1]

\* Textnet.node_types
NodeTypes(g) == [v \in 1..Len(g.vs) |-> g.vs[v]["type"] = "term"]

(***************************************************************************)
(* Textnet.project                                                         *)
(***************************************************************************)
\* im.dot(im.T) for axis "doc", im.T.dot(im) for axis "term": a frame indexed
\* by labels on both sides.
Dot(m, axis) ==
    LET labels == IF axis = "doc" THEN m.index ELSE m.columns
        other == IF axis = "doc" THEN NCols(m) ELSE NRows(m)
        At(i, k) == IF axis = "doc" THEN m.values[i][k] ELSE m.values[k][i]
    IN [index |-> labels,
        columns |-> labels,
        values |-> [i \in 1..Len(labels) |->
                      [j \in 1..Len(labels) |->
                          SumSeq([k \in 1..other |-> At(i, k) * At(j, k)])]]]

Adjacent(g, u, v) ==
    \E k \in 1..Len(g.es) :
        \/ g.es[k].source = u /\ g.es[k].target = v
        \/ g.es[k].source = v /\ g.es[k].target = u

\* The vertices of the wanted kind, in order.
Selected(g, types, which) ==
    SelectSeq([v \in 1..Len(g.vs) |-> v], LAMBDA v : types[v] = which)

\* igraph refuses to project a graph in which an edge joins two vertices of
\* the wanted kind ("Non-bipartite edge found in bipartite projection").
NonBipartite(g, types, which) ==
    \E k \in 1..Len(g.es) :
        types[g.es[k].source] = which /\ types[g.es[k].target] = which

\* Graph.bipartite_projection(types, which): the vertices of the wanted kind
\* with their attributes, and an edge between two of them that share a
\* neighbour, its weight the number of shared neighbours.
BipartiteProjection(g, types, which) ==
    LET sel == Selected(g, types, which)
        Shared(a, b) == {w \in 1..Len(g.vs) : Adjacent(g, sel[a], w) /\ Adjacent(g, sel[b], w)}
        From(a) == SelectSeq([b \in 1..Len(sel) |-> <<a, b>>],
                             LAMBDA e : e[2] > a /\ Shared(e[1], e[2]) # {})
        pairs == Concat([a \in 1..Len(sel) |-> From(a)])
    IN [vs |-> [a \in 1..Len(sel) |-> g.vs[sel[a]]],
        es |-> [k \in 1..Len(pairs) |->
                   [source |-> pairs[k][1], target |-> pairs[k][2],
                    weight |-> Cardinality(Shared(pairs[k][1], pairs[k][2]))]]]

\* weights.loc[source, target] exists
HasLoc(w, source, target) == source \in Range(w.index) /\ target \in Range(w.columns)

Loc(w, source, target) == w.values[IndexOf(w.index, source)][IndexOf(w.columns, target)]

\* The weight the loop of project gives to the edge e of the projection p.
ProjectedWeight(p, w, e) ==
    LET source == p.vs[e.source]["id"]
        target == p.vs[e.target]["id"]
    IN IF source = target THEN 0 ELSE Loc(w, source, target)

\* The loop of project raises KeyError at an edge whose ids differ and are no
\* labels of the weights.
LoopFails(p, w) ==
    \E k \in 1..Len(p.es) :
        LET source == p.vs[p.es[k].source]["id"]
            target == p.vs[p.es[k].target]["id"]
        IN source # target /\ ~HasLoc(w, source, target)

\* project past its assertion, on the axis "doc" or "term": the projection
\* with the weights of the loop, or the error raised on the way.
Projected(m, g, types, node_type, axis) ==
    LET which == (axis = "term")
        w == Dot(m, axis)
        p == BipartiteProjection(g, types, which)
    IN IF NonBipartite(g, types, which)
       THEN [op |-> "project", arg |-> node_type, status |-> "InternalError", value |-> None]
       ELSE IF LoopFails(p, w)
       THEN [op |-> "project", arg |-> node_type, status |-> "KeyError", value |-> None]
       ELSE [op |-> "project", arg |-> node_type, status |-> "ok",
             value |-> [vs |-> p.vs,
                        es |-> [k \in 1..Len(p.es) |->
                                   [p.es[k] EXCEPT !.weight = ProjectedWeight(p, w, p.es[k])]]]]

\* A variant of ProjectResult without the assertion: whatever is not "term"
\* takes the else branch.
ProjectResultNoAssert(m, g, types, node_type) ==
    Projected(m, g, types, node_type, IF node_type = "term" THEN "term" ELSE "doc")

\* What project(node_type) returns or raises; types is self.node_types.
ProjectResult(m, g, types, node_type) ==
    IF node_type \notin {"doc", "term"}
    THEN [op |-> "project", arg |-> node_type, status |-> "AssertionError", value |-> None]
    ELSE Projected(m, g, types, node_type, node_type)

(***************************************************************************)
(* Textnet._partition_graph and Textnet._formal_context                    *)
(***************************************************************************)
\* The outcomes of the randomized optimiser the model tells apart: every node
\* in one cluster, or every node in a cluster of its own.
Outcomes == {"one", "singletons"}

\* The membership list of the partition the optimiser returns.
_partition_graph(g, outcome) ==
    [v \in 1..Len(g.vs) |-> IF outcome = "one" THEN 0 ELSE v - 1]

\* A variant of Crisp with a strict cut (x > alpha).
CrispStrict(m, alpha) ==
    [i \in 1..NRows(m) |-> [j \in 1..NCols(m) |-> m.values[i][j] > alpha]]

\* crisp = im.applymap(lambda x: True if x >= alpha else False)
Crisp(m, alpha) ==
    [i \in 1..NRows(m) |-> [j \in 1..NCols(m) |-> m.values[i][j] >= alpha]]

\* reduced = crisp[crisp.any(axis=1)].loc[:, crisp.any(axis=0)]
_formal_context(m, alpha) ==
    LET crisp == Crisp(m, alpha)
        rows == SelectSeq([i \in 1..NRows(m) |-> i],
                          LAMBDA i : \E j \in 1..NCols(m) : crisp[i][j])
        cols == SelectSeq([j \in 1..NCols(m) |-> j],
                          LAMBDA j : \E i \in 1..NRows(m) : crisp[i][j])
    IN [objects |-> [a \in 1..Len(rows) |-> m.index[rows[a]]],
        properties |-> [b \in 1..Len(cols) |-> m.columns[cols[b]]],
        bools |-> [a \in 1..Len(rows) |-> [b \in 1..Len(cols) |-> crisp[rows[a]][cols[b]]]]]

\* alpha of the context property: 0.3, in the unit of the matrix entries.
ContextAlpha == 3000

\* The alphas of the calls of _formal_context: 0, the 0.3 of the context
\* property, and 0.5.
Alphas == {0, ContextAlpha, 5000}

\* The arguments of project: the two valid ones and an invalid one.
NodeTypeArgs == {"doc", "term", "both"}

(***************************************************************************)
(* The state machine.  An initial state is the object after                *)
(* Textnet(tidy_text, sublinear, doc_attrs, min_docs); the constructor's   *)
(* arguments are kept to state the properties of the construction.         *)
(***************************************************************************)
Constructed(tables) ==
    /\ tidy_text \in tables
    /\ sublinear \in BOOLEAN
    /\ min_docs \in 1..MaxMinDocs
    /\ df = _tf_idf(tidy_text, sublinear, min_docs)
    /\ im = Pivot(df)
    /\ doc_attrs \in DocAttrsInputs
    /\ graph = BuildGraph(im, doc_attrs)
    /\ cache = [node_types |-> Unset, clusters |-> Unset, context |-> Unset]
    /\ computed = [node_types |-> 0, clusters |-> 0, context |-> 0]
    /\ ret = [op |-> "__init__", arg |-> None, status |-> "ok", value |-> None]

Inputs == <<tidy_text, sublinear, min_docs, doc_attrs>>

\* An access of a cached property whose body yields val; hit tells whether the
\* value came from the instance dict.
Access(name, val) ==
    /\ cache[name].set \/ computed[name] < MaxComputed
    /\ cache' = Store(cache, name, val)
    /\ computed' = Count(cache, computed, name)
    /\ ret' = [op |-> name, arg |-> None, status |-> "ok", hit |-> cache[name].set,
               value |-> Lookup(cache, name, val)]
    /\ UNCHANGED <<Inputs, df, im, graph>>

AccessNodeTypes == Access("node_types", NodeTypes(graph))

AccessClusters == \E outcome \in Outcomes : Access("clusters", _partition_graph(graph, outcome))

AccessContext == Access("context", _formal_context(im, ContextAlpha))

\* project(node_type): self.node_types is read (and computed, when it was
\* not yet) only by a call that passes the assertion.
Project(node_type) ==
    LET result == ProjectResult(im, graph,
                                Lookup(cache, "node_types", NodeTypes(graph)), node_type)
        asserted == result.status = "AssertionError"
    IN /\ asserted \/ cache.node_types.set \/ computed.node_types < MaxComputed
       /\ cache' = IF asserted THEN cache ELSE Store(cache, "node_types", NodeTypes(graph))
       /\ computed' = IF asserted THEN computed ELSE Count(cache, computed, "node_types")
       /\ ret' = result
       /\ UNCHANGED <<Inputs, df, im, graph>>

\* A direct call of _formal_context(alpha).
FormalContext(alpha) ==
    /\ ret' = [op |-> "_formal_context", arg |-> alpha, status |-> "ok",
               value |-> _formal_context(im, alpha)]
    /\ UNCHANGED <<Inputs, df, im, graph, cache, computed>>

(***************************************************************************)
(* Spec: the construction from every table with counts 0..MaxN, followed   *)
(* by calls of _formal_context.                                            *)
(***************************************************************************)
Init == Constructed(TidyTables(0..MaxN))

Next == \E alpha \in Alphas : FormalContext(alpha)

Spec == Init /\ [][Next]_vars

(***************************************************************************)
(* SpecUse: the cached properties and project, in any order, on the        *)
(* objects built from the tables whose counts are all 1 (the operations    *)
(* read the table only through im and graph).                              *)
(***************************************************************************)
InitUse == Constructed(TidyTables({1}))

NextUse ==
    \/ AccessNodeTypes
    \/ AccessClusters
    \/ AccessContext
    \/ \E node_type \in NodeTypeArgs : Project(node_type)

SpecUse == InitUse /\ [][NextUse]_vars

(***************************************************************************)
(* Properties of the construction (Spec).                                  *)
(***************************************************************************)
\* The labels of the vertices in igraph's order: the rows, then the columns.
Labels == im.index \o im.columns

\* The number of distinct documents of the input that contain the term t.
DocFreq(t) == Cardinality({r.label : r \in {q \in tidy_text : q.term = t}})

\* The number of distinct documents of the input.
NumDocs == Cardinality({r.label : r \in tidy_text})

\* C1: the bipartite graph has exactly one edge for every nonzero entry of the
\* weight matrix and no other edge, the edges are in the order of the
\* row-major scan, and the weight of every edge is the entry at the edge's own
\* (document row, term column).
C1_EdgeWeightsFollowMatrix ==
    LET n1 == NRows(im)
        Row(k) == graph.es[k].source
        Col(k) == graph.es[k].target - n1
    IN /\ \A k \in 1..Len(graph.es) :
            /\ Row(k) \in 1..n1
            /\ Col(k) \in 1..NCols(im)
            /\ im.values[Row(k)][Col(k)] # 0
            /\ graph.es[k].weight = im.values[Row(k)][Col(k)]
       /\ \A i \in 1..n1 : \A j \in 1..NCols(im) :
            im.values[i][j] # 0 =>
                Cardinality({k \in 1..Len(graph.es) : Row(k) = i /\ Col(k) = j}) = 1
       /\ \A k, l \in 1..Len(graph.es) :
            k < l => Row(k) < Row(l) \/ (Row(k) = Row(l) /\ Col(k) < Col(l))

\* C1's case: a matrix with zero and nonzero entries whose edges, in at least
\* two rows, carry different weights.
C1_Witness ==
    /\ Len(graph.es) >= 3
    /\ \E i \in 1..NRows(im) : \E j \in 1..NCols(im) : im.values[i][j] = 0
    /\ \E k, l \in 1..Len(graph.es) :
          /\ graph.es[k].source # graph.es[l].source
          /\ graph.es[k].weight # graph.es[l].weight

\* C2: every edge of the bipartite graph joins a node tagged doc and a node
\* tagged term; the first block of nodes (the rows) is tagged doc and the
\* second block (the columns) is tagged term.
C2_EdgesJoinDocAndTerm ==
    /\ \A k \in 1..Len(graph.es) :
          {graph.vs[graph.es[k].source]["type"], graph.vs[graph.es[k].target]["type"]}
              = {"doc", "term"}
    /\ \A v \in 1..Len(graph.vs) :
          graph.vs[v]["type"] = IF v <= NRows(im) THEN "doc" ELSE "term"

\* C3: a term whose document frequency in the unfiltered input is below
\* min_docs is no column of the weight matrix, no node of the graph and in no
\* kept row; every column is a term with document frequency >= min_docs.
C3_RareTermsExcluded ==
    /\ \A t \in Terms :
          DocFreq(t) < min_docs =>
              /\ t \notin Range(im.columns)
              /\ \A v \in 1..Len(graph.vs) : graph.vs[v]["id"] # t
              /\ \A r \in df : r.term # t
    /\ \A j \in 1..NCols(im) : DocFreq(im.columns[j]) >= min_docs
    /\ Len(graph.vs) = NRows(im) + NCols(im)

\* C3's case: a term of the input is filtered out while another one is kept.
C3_Witness ==
    /\ \E t \in Terms : DocFreq(t) >= 1 /\ DocFreq(t) < min_docs
    /\ NCols(im) >= 1

\* C4 as claimed: the rows of the weight matrix are the distinct documents of
\* the input, whatever the filter removes.
C4_EveryDocumentIsARow == Range(im.index) = {r.label : r \in tidy_text}

\* A row of the input has a defined tf unless the weighting is not sublinear
\* and the row's document has total count 0 (0 / 0).
DefinedTf(r) == sublinear \/ SumN({q \in tidy_text : q.label = r.label}) > 0

\* The filter keeps a term when at least min_docs of its rows have a defined tf.
KeptTerm(t) == Cardinality({r \in tidy_text : r.term = t /\ DefinedTf(r)}) >= min_docs

\* C4, amended: the rows of the weight matrix are the documents of the input
\* that have at least one term kept by the filter, each once and in sorted
\* order; the graph has a node per row and per column and no other.
C4_RowsAreDocumentsWithKeptTerm ==
    /\ im.index = Restrict(DocOrder, {r.label : r \in {q \in tidy_text : KeptTerm(q.term)}})
    /\ im.columns = Restrict(TermOrder, {r.term : r \in {q \in tidy_text : KeptTerm(q.term)}})
    /\ Len(graph.vs) = NRows(im) + NCols(im)

\* C4's case: a document of the input lost all its terms to the filter while
\* other documents kept some.
C4_Witness ==
    /\ \E r \in tidy_text : r.label \notin Range(im.index)
    /\ NRows(im) >= 1

\* C5 as claimed: every computed tf_idf is >= 0 and is 0 exactly when tf is 0;
\* an entry of the weight matrix is 0 exactly when tf is 0 or the term is
\* absent from the document's rows.
C5_ZeroOnlyWhenTfZero ==
    /\ \A r \in df : r.tf_idf >= 0 /\ (r.tf_idf = 0 <=> Tf(tidy_text, sublinear, r) = 0)
    /\ \A i \in 1..NRows(im) : \A j \in 1..NCols(im) :
          im.values[i][j] = 0 <=>
              \A r \in df : (r.label = im.index[i] /\ r.term = im.columns[j]) => r.n = 0

\* C5, amended: tf_idf = tf * idf with idf = log10(D / df(term)) taken from the
\* unfiltered input; it is nan for a row whose tf is nan (not sublinear, total
\* count of the document 0) and otherwise >= 0, and 0 exactly when tf is 0
\* (n = 0) or idf is 0 (the term occurs in every document of the input).
C5_ZeroWhenTfOrIdfZero ==
    \A r \in df :
        IF DefinedTf(r)
        THEN /\ r.tf_idf >= 0
             /\ r.tf_idf = 0 <=> (r.n = 0 \/ DocFreq(r.term) = NumDocs)
             /\ r.tf_idf = Tf(tidy_text, sublinear, r) * Log10Ratio(NumDocs, DocFreq(r.term))
        ELSE r.tf_idf = NaN

\* C5's case: a kept row with a positive count whose tf_idf is 0, next to a
\* row with a positive tf_idf and a row with count 0.
C5_Witness ==
    /\ \E r \in df : r.n > 0 /\ r.tf_idf = 0
    /\ \E r \in df : r.tf_idf > 0
    /\ \E r \in df : r.n = 0

\* C8: for every name of doc_attrs, a document node holds the value the map
\* has for its document id (None when the map has none) and a term node holds
\* none; the core attributes id and type keep their meaning.
C8_DocAttrsOnlyOnDocuments ==
    /\ \A x \in 1..Len(doc_attrs) : \A v \in 1..Len(graph.vs) :
          doc_attrs[x][1] \notin {"id", "type"} =>
              graph.vs[v][doc_attrs[x][1]] =
                  IF v <= NRows(im) THEN Get(doc_attrs[x][2], im.index[v]) ELSE None
    /\ \A v \in 1..Len(graph.vs) :
          /\ graph.vs[v]["id"] = Labels[v]
          /\ graph.vs[v]["type"] = IF v <= NRows(im) THEN "doc" ELSE "term"

(***************************************************************************)
(* Properties of _formal_context (Spec).                                   *)
(***************************************************************************)
\* C7: the context returned by _formal_context(alpha), for the 0.3 of the
\* context property as for any other alpha, has the rows with an entry >= alpha
\* as objects and the columns with an entry >= alpha as properties, the
\* incidence of (o, p) is im[o, p] >= alpha, and no row and no column of it is
\* all False.
C7_ContextIsReducedAlphaCut ==
    ret.op = "_formal_context" =>
        LET alpha == ret.arg
            fc == ret.value
            rows == {i \in 1..NRows(im) : \E j \in 1..NCols(im) : im.values[i][j] >= alpha}
            cols == {j \in 1..NCols(im) : \E i \in 1..NRows(im) : im.values[i][j] >= alpha}
            At(a, b) == im.values[IndexOf(im.index, fc.objects[a])]
                                 [IndexOf(im.columns, fc.properties[b])]
        IN /\ fc.objects = Restrict(im.index, {im.index[i] : i \in rows})
           /\ fc.properties = Restrict(im.columns, {im.columns[j] : j \in cols})
           /\ DOMAIN fc.bools = 1..Len(fc.objects)
           /\ \A a \in 1..Len(fc.objects) :
                 /\ DOMAIN fc.bools[a] = 1..Len(fc.properties)
                 /\ \A b \in 1..Len(fc.properties) : fc.bools[a][b] = (At(a, b) >= alpha)
                 /\ \E b \in 1..Len(fc.properties) : fc.bools[a][b]
           /\ \A b \in 1..Len(fc.properties) : \E a \in 1..Len(fc.objects) : fc.bools[a][b]

\* C7's case: a call on a 3 x 2 matrix with a single entry >= alpha, which
\* reduces to one object and one property.
C7_Witness ==
    /\ ret.op = "_formal_context"
    /\ NRows(im) = 3 /\ NCols(im) = 2
    /\ Cardinality({c \in (1..3) \X (1..2) : im.values[c[1]][c[2]] >= ret.arg}) = 1
    /\ Cardinality({c \in (1..3) \X (1..2) : im.values[c[1]][c[2]] > 0}) >= 3
    /\ ret.value.bools = << <<TRUE>> >>

(***************************************************************************)
(* Properties of project and of the cached properties (SpecUse).           *)
(***************************************************************************)
\* The entry (a, b) of im . im^T (axis "doc") or im^T . im (axis "term").
PairWeight(axis, a, b) ==
    IF axis = "doc"
    THEN SumSeq([j \in 1..NCols(im) |-> im.values[a][j] * im.values[b][j]])
    ELSE SumSeq([i \in 1..NRows(im) |-> im.values[i][a] * im.values[i][b]])

\* C6: the graph project(node_type) returns has nodes of the requested class
\* only, with the ids they have in the bipartite graph; an edge between
\* distinct nodes a, b weighs W[a, b] (= W[b, a]), W being im . im^T for doc and
\* im^T . im for term, and a self-loop weighs 0.
C6_ProjectionWeights ==
    (ret.op = "project" /\ ret.status = "ok") =>
        LET g == ret.value
            first == IF ret.arg = "doc" THEN 0 ELSE NRows(im)
            size == IF ret.arg = "doc" THEN NRows(im) ELSE NCols(im)
        IN /\ Len(g.vs) <= size
           /\ \A a \in 1..Len(g.vs) :
                 a <= size =>
                     /\ g.vs[a]["type"] = ret.arg
                     /\ g.vs[a]["id"] = graph.vs[first + a]["id"]
           /\ \A k \in 1..Len(g.es) :
                 Len(g.vs) <= size =>
                     /\ g.es[k].weight =
                            IF g.es[k].source = g.es[k].target THEN 0
                            ELSE PairWeight(ret.arg, g.es[k].source, g.es[k].target)
                     /\ PairWeight(ret.arg, g.es[k].source, g.es[k].target)
                            = PairWeight(ret.arg, g.es[k].target, g.es[k].source)

\* C9: project with a node_type other than doc or term raises the assertion
\* error, returns nothing and changes neither the weight matrix, the graph nor
\* the cached values; project with doc or term never raises it.
C9_InvalidNodeTypeRejected ==
    [][ret'.op = "project" =>
           IF ret'.arg \in {"doc", "term"}
           THEN ret'.status # "AssertionError"
           ELSE /\ ret'.status = "AssertionError"
                /\ ret'.value = None
                /\ cache' = cache /\ computed' = computed
                /\ df' = df /\ im' = im /\ graph' = graph]_vars

\* C9's case: an invalid call was refused on an object with edges whose
\* node_types had not been computed, and still is not.
C9_Witness ==
    /\ ret.op = "project"
    /\ ret.status = "AssertionError"
    /\ ~cache.node_types.set /\ computed.node_types = 0
    /\ cache.clusters.set
    /\ Len(graph.es) >= 2

Props == {"node_types", "clusters", "context"}

\* C10: each cached property is computed at most once, on its first access
\* and not at construction; a stored value is never replaced or dropped and is
\* what every access returns; no operation changes the weight matrix or the
\* graph.
C10_ComputedOnceAndKept ==
    [][/\ \A name \in Props :
             /\ ~cache[name].set <=> computed[name] = 0
             /\ cache'[name].set <=> computed'[name] = 1
             /\ cache[name].set => cache'[name] = cache[name]
             /\ ret'.op = name =>
                    /\ cache'[name].set
                    /\ ret'.value = cache'[name].value
                    /\ ret'.hit = cache[name].set
       /\ ret'.op = "project" /\ ret'.status # "AssertionError" => cache'.node_types.set
       /\ df' = df /\ im' = im /\ graph' = graph]_vars

\* C10's case: after all three properties were computed and project was
\* called, an access of clusters is served from the stored value.
C10_Witness ==
    /\ \A name \in Props : cache[name].set /\ computed[name] = 1
    /\ ret.op = "clusters" /\ ret.hit
    /\ ret.value = cache.clusters.value
    /\ Len(graph.vs) >= 4

====
